---- MODULE Spec2Model ----
(***************************************************************************)
(* A model of pgrep (welschmorgan/pgrep): the wildcard query matcher of    *)
(* src/lib/query.rs and the TTL cache store of src/lib/cache.rs.           *)
(*                                                                         *)
(* Strings are sequences of characters; a character is a one-character     *)
(* TLA+ string.  Rust's str::len() counts UTF-8 bytes while chars().nth(i) *)
(* indexes characters, so both measures are modelled.                      *)
(***************************************************************************)
EXTENDS Integers, Sequences, FiniteSets, TLC

VARIABLES
  qpc,      \* position of the query driver: "input", "parsed", "error", "matched"
  raw,      \* the expression handed to Query::from_str
  subject,  \* the candidate handed to Query::matches
  query,    \* the parsed Query: [expr, parts]
  result,   \* what Query::matches did: "true", "false", "panic", or "none" before the call
  keys,        \* the keys this run hands to the store, each with the type of
               \* the payload its caller stores and loads under it
  enabled,     \* Cache.enabled
  index,       \* Cache.index: [paths, write_times, written_at]
  dir_exists,  \* whether the cache directory (Cache.base_dir) exists on disk
  files,       \* the files of the cache directory: file name -> bytes
  now,         \* the clock read by Local::now(), in minutes
  last,        \* the last call on the store: [op, key, ret, computed], where
               \* computed is what the action of load_store returned, if invoked
  stored,      \* history: key -> the value of the last successful write under that
               \* key, and whether its payload file has been left alone since
  ppc,         \* position of the project driver: "tree", "scanned", "failed", "detected"
  tree,        \* the files below the scanned folder; their ancestors are its directories
  unreadable,  \* the directories that std::fs::read_dir fails on
  scan,        \* what FolderScan::new returned: [ok, files]
  projects,    \* what detect_projects returned: a sequence of Projects
  lock,        \* the global mutex around the store: the caller holding it, or "free"
  thr,         \* the in-process callers of load_store: caller -> [pc, key, computed,
               \* ret, raced], raced when the call began during the other's call
  order,       \* history: the callers in the order they took the lock
  apc,         \* position of the application driver: "args", "ready", "init_error", "done"
  app_in,      \* the command line and what the configured folders hold
  app_out,     \* what App::new or App::run did: [ret, msg, written, cleaned, shutdown]
  term,        \* the terminal UI: [status, projects, selected, details_opened]
  xp           \* a call of expand_path: [pc, path, env, ret, out, turns], turns
               \* the parity of the number of loop iterations taken

qvars == <<qpc, raw, subject, query, result>>
pvars == <<ppc, tree, unreadable, scan, projects>>
tvars == <<lock, thr, order>>
avars == <<apc, app_in, app_out, term, xp>>
cvars == <<keys, enabled, index, dir_exists, files, now, last, stored>>
vars == <<qpc, raw, subject, query, result, keys, enabled, index, dir_exists, files, now, last, stored,
          ppc, tree, unreadable, scan, projects, lock, thr, order, apc, app_in, app_out,
          term, xp>>

----------------------------------------------------------------------------
(* Bounds of the query model *)

MaxQueryLen == 3
MaxExprLen == 3

(* Characters *)

Wildcards == {"?", "_", "*", "#"}
\* a character outside ASCII (two bytes in UTF-8), written by its code point
EAcute == "U+00E9"
Literals == {"a", "A", "1", " ", EAcute}
QueryAlphabet == Literals \cup Wildcards
ExprAlphabet == {"a", "A", "1", EAcute}

\* char::len_utf8: every character of the alphabets is ASCII but EAcute
Utf8Len(c) == IF c = EAcute THEN 2 ELSE 1

\* char::to_ascii_lowercase
ToAsciiLowercase(c) == IF c = "A" THEN "a" ELSE c

\* char::is_numeric
IsNumeric(c) == c = "1"

\* char::is_whitespace, as used by str::trim
IsWhitespace(c) == c = " "

Strings(alphabet, n) == UNION {[1..k -> alphabet] : k \in 0..n}

RECURSIVE StrLen(_)
\* str::len(): the length in bytes
StrLen(s) == IF s = <<>> THEN 0 ELSE Utf8Len(Head(s)) + StrLen(Tail(s))

RECURSIVE TrimStart(_)
TrimStart(s) ==
  IF s # <<>> /\ IsWhitespace(Head(s)) THEN TrimStart(Tail(s)) ELSE s

RECURSIVE TrimEnd(_)
TrimEnd(s) ==
  IF s # <<>> /\ IsWhitespace(s[Len(s)]) THEN TrimEnd(SubSeq(s, 1, Len(s) - 1)) ELSE s

\* str::trim
Trim(s) == TrimEnd(TrimStart(s))

----------------------------------------------------------------------------
(* Query::from_str *)

Part(kind, s) == [kind |-> kind, s |-> s]

\* one iteration of the loop over expr.chars()
PushChar(parts, ch) ==
  CASE ch = "?" -> Append(parts, Part("OptionalChar", <<>>))
    [] ch = "_" -> Append(parts, Part("RequiredChar", <<>>))
    [] ch = "*" -> Append(parts, Part("AnyStr", <<>>))
    [] ch = "#" -> Append(parts, Part("Integer", <<>>))
    [] OTHER ->
         IF parts # <<>> /\ parts[Len(parts)].kind = "Fixed"
         THEN [parts EXCEPT ![Len(parts)] = Part("Fixed", Append(@.s, ch))]
         ELSE Append(parts, Part("Fixed", <<ch>>))

RECURSIVE ParseParts(_, _, _)
ParseParts(expr, i, parts) ==
  IF i > Len(expr) THEN parts
  ELSE ParseParts(expr, i + 1, PushChar(parts, expr[i]))

\* Ok(Query) or the parse error for an empty expression
from_str(s) ==
  LET expr == Trim(s) IN
  IF expr = <<>> THEN [ok |-> FALSE, expr  |-> expr, parts |-> <<>>]
  ELSE [ok |-> TRUE, expr |-> expr, parts |-> ParseParts(expr, 1, <<>>)]

----------------------------------------------------------------------------
(* Query::match_part.  part_it is the index of the part the iterator yields *)
(* next; it is advanced through the recursion as the code's &mut Iter is.   *)

Success(ch_id, part_it) == [res |-> "Success", ch |-> ch_id, it |-> part_it]
Failure(part_it) == [res |-> "Failure", ch |-> 0, it |-> part_it]
Panic(part_it) == [res |-> "Panic", ch |-> 0, it |-> part_it]

RECURSIVE IntegerLoop(_, _)
\* the while loop of Part::Integer; -1 when chars().nth(ch_id).unwrap() panics
IntegerLoop(expr, ch_id) ==
  IF ch_id < StrLen(expr)
  THEN IF ch_id >= Len(expr) THEN -1
       ELSE IF ~IsNumeric(expr[ch_id + 1]) THEN ch_id
       ELSE IntegerLoop(expr, ch_id + 1)
  ELSE ch_id

RECURSIVE FixedLoop(_, _, _, _, _)
\* the while loop of Part::Fixed and the check after it
FixedLoop(s, s_id, expr, ch_id, part_it) ==
  IF ch_id < StrLen(expr) /\ s_id < StrLen(s)
  THEN IF s_id >= Len(s) \/ ch_id >= Len(expr) THEN Panic(part_it)
       ELSE IF ToAsciiLowercase(s[s_id + 1]) # ToAsciiLowercase(expr[ch_id + 1])
            THEN Failure(part_it)
            ELSE FixedLoop(s, s_id + 1, expr, ch_id + 1, part_it)
  ELSE IF s_id < StrLen(s) THEN Failure(part_it) ELSE Success(ch_id, part_it)

RECURSIVE match_part(_, _, _, _, _)
RECURSIVE AnyStrLoop(_, _, _, _, _)

\* the while loop of Part::AnyStr, once part_it.next() gave `next`
AnyStrLoop(next, parts, part_it, expr, ch_id) ==
  IF ch_id < StrLen(expr)
  THEN LET m == match_part(next, parts, part_it, expr, ch_id) IN
       IF m.res = "Success" THEN Success(m.ch, m.it)
       ELSE IF m.res = "Panic" THEN m
       ELSE AnyStrLoop(next, parts, m.it, expr, ch_id + 1)
  ELSE Failure(part_it)

match_part(p, parts, part_it, expr, ch_id) ==
  CASE p.kind = "OptionalChar" -> Success(ch_id + 1, part_it)
    [] p.kind = "RequiredChar" ->
         IF ch_id >= StrLen(expr) THEN Failure(part_it)
         ELSE Success(ch_id + 1, part_it)
    [] p.kind = "AnyStr" ->
         IF part_it <= Len(parts)
         THEN AnyStrLoop(parts[part_it], parts, part_it + 1, expr, ch_id)
         ELSE Success(StrLen(expr), part_it)
    [] p.kind = "Integer" ->
         LET end == IntegerLoop(expr, ch_id) IN
         IF end = -1 THEN Panic(part_it)
         ELSE IF end = ch_id THEN Failure(part_it)
         ELSE Success(end, part_it)
    [] p.kind = "Fixed" -> FixedLoop(p.s, 0, expr, ch_id, part_it)

RECURSIVE MatchesLoop(_, _, _, _, _)
\* the `while let Some(part) = part_it.next()` loop of Query::matches
MatchesLoop(parts, part_it, expr, ch_id, last_match) ==
  IF part_it > Len(parts)
  THEN [res |-> last_match, ch |-> ch_id, it |-> part_it]
  ELSE LET m == match_part(parts[part_it], parts, part_it + 1, expr, ch_id) IN
       IF m.res = "Success"
       THEN MatchesLoop(parts, m.it, expr, m.ch, "Success")
       ELSE [res |-> m.res, ch |-> ch_id, it |-> m.it]

\* Query::matches: "true", "false", or "panic" when an unwrap() of None aborts it
matches(parts, expr) ==
  LET end == MatchesLoop(parts, 1, expr, 0, "Failure") IN
  IF end.res = "Panic" THEN "panic"
  ELSE IF end.it > Len(parts) /\ end.ch >= StrLen(expr) /\ end.res = "Success"
       THEN "true"
       ELSE "false"

----------------------------------------------------------------------------
(* The cache store of src/lib/cache.rs *)

\* Cache::CACHE_BUST_THRESHOLD, in minutes
CACHE_BUST_THRESHOLD == 5

\* Cache::CACHE_EXT
CACHE_EXT == <<".", "b", "i", "n">>

\* Cache::CACHE_INDEX_KEY
CACHE_INDEX_KEY == <<"i", "n", "d", "e", "x">>

(* Bounds of the cache model *)
MaxClock == 5

\* the values handed to the store, with their types: list_projects stores a
\* FolderScan under a folder and a Vec<Project> under another key
Values == {"v1", "v2", "p1"}
TypeOf(value) == IF value = "p1" THEN "Projects" ELSE "FolderScan"
ValuesOf(type) == {value \in Values : TypeOf(value) = type}

\* the keys a run hands to the store, each mapped to the type used under it:
\* two keys that differ only in a character that is not alphanumeric, of one
\* type or of two, or a key and one spelled like the index key
KeySets ==
  { (<<"a", "/", "b">> :> "FolderScan") @@ (<<"a", "_", "b">> :> "FolderScan"),
    (<<"a", "/", "b">> :> "FolderScan") @@ (<<"a", "_", "b">> :> "Projects"),
    (<<"a", "/", "b">> :> "FolderScan") @@ (<<"i", "n", "d", "e", "x">> :> "FolderScan") }

\* char::is_ascii_alphanumeric, on the characters of the keys
IsAsciiAlphanumeric(ch) ==
  ch \in {"a", "b", "c", "d", "e", "i", "j", "n", "o", "p", "r", "s", "t", "x"}

\* a file name that keeps the key's characters as they are
path_KeepsCharacters(key) == key \o CACHE_EXT

\* Cache::path: the file name inside base_dir
path(key) ==
  [i \in 1..Len(key) |->
     LET ch == IF key[i] = "\\" THEN "/" ELSE key[i] IN
     IF IsAsciiAlphanumeric(ch) THEN ch ELSE "_"] \o CACHE_EXT

\* Index::default()
EmptyIndex == [paths |-> <<>>, write_times |-> <<>>, written_at |-> -1]

\* rmp_serde serialization of a value and of the Index
Serialize(value) == [type |-> TypeOf(value), data |-> value]
SerializeIndex(idx) == [type |-> "Index", data |-> idx]

\* rmp_serde deserialization as a value of the given type: bytes of another
\* shape are an error
Deserialize(bytes, type) ==
  IF bytes.type = type THEN [ok |-> TRUE, data |-> bytes.data]
  ELSE [ok |-> FALSE, data |-> "-"]

\* rmp_serde deserialization as an Index
DeserializeIndex(bytes) ==
  IF bytes.type = "Index" THEN [ok |-> TRUE, data |-> bytes.data]
  ELSE [ok |-> FALSE, data |-> EmptyIndex]

\* results of the calls
Ok(v) == [tag |-> "Ok", val |-> v]
Err == [tag |-> "Err", val |-> "-"]
None == [tag |-> "None", val |-> "-"]
Some(v) == [tag |-> "Some", val |-> v]

Call(op, key, ret, computed) ==
  [op |-> op, key |-> key, ret |-> ret, computed |-> computed]

\* std::fs::write(path, buf) into the cache directory
FsWrite(fs, name, bytes) ==
  [f \in DOMAIN fs \cup {name} |-> IF f = name THEN bytes ELSE fs[f]]

\* HashMap::insert
Insert(map, k, v) ==
  [x \in DOMAIN map \cup {k} |-> IF x = k THEN v ELSE map[x]]

\* load with the staleness test written `now > expires_at`, as Cache::new has it
load_StrictExpiry(key) ==
  IF ~enabled THEN None
  ELSE IF key \notin DOMAIN index.write_times THEN None
  ELSE IF now > index.write_times[key] + CACHE_BUST_THRESHOLD THEN None
  ELSE IF ~(dir_exists /\ path(key) \in DOMAIN files) THEN None
  ELSE LET de == Deserialize(files[path(key)], keys[key]) IN
       IF de.ok THEN Some(de.data) ELSE Err

\* Cache::load: Ok(None), Ok(Some(value)) or Err
load(key) ==
  IF ~enabled THEN None
  ELSE IF key \notin DOMAIN index.write_times THEN None
  ELSE IF now >= index.write_times[key] + CACHE_BUST_THRESHOLD THEN None
  ELSE IF ~(dir_exists /\ path(key) \in DOMAIN files) THEN None
  ELSE LET de == Deserialize(files[path(key)], keys[key]) IN
       IF de.ok THEN Some(de.data) ELSE Err

\* store without its early return for a disabled store
StoreWrites_IgnoresEnabled == dir_exists

\* whether Cache::store writes: the store is enabled and fs::write succeeds
StoreWrites == enabled /\ dir_exists

\* store writing under the key itself instead of under path(key)
StoreFiles_UnsanitizedName(key, value) ==
  IF StoreWrites THEN FsWrite(files, key \o CACHE_EXT, Serialize(value)) ELSE files

\* Cache::store: the files after the call
StoreFiles(key, value) ==
  IF StoreWrites THEN FsWrite(files, path(key), Serialize(value)) ELSE files

\* Cache::store: the index after the call
StoreIndex(key) ==
  IF StoreWrites
  THEN [index EXCEPT
          !.paths = IF \E i \in 1..Len(@) : @[i] = key THEN @ ELSE Append(@, key),
          !.write_times = Insert(@, key, now)]
  ELSE index

\* Cache::store: Ok(path) or the error of fs::write
StoreRet == IF enabled /\ ~dir_exists THEN Err ELSE Ok("path")

\* history: a successful write under key, which rewrites the payload file of
\* every key that is mapped to the same file
StoreHistory(key, value) ==
  IF StoreWrites
  THEN [k \in DOMAIN stored \cup {key} |->
          IF k = key THEN [val |-> value, intact |-> TRUE]
          ELSE IF path(k) = path(key) THEN [stored[k] EXCEPT !.intact = FALSE]
          ELSE stored[k]]
  ELSE stored

\* the state after Cache::new() on a machine without a cache directory; the
\* query driver is given nothing
Init ==
  /\ qpc = "idle"
  /\ raw = <<>>
  /\ subject = <<>>
  /\ query = [ok |-> FALSE, expr |-> <<>>, parts |-> <<>>]
  /\ result = "none"
  /\ keys \in KeySets
  /\ enabled = TRUE
  /\ index = EmptyIndex
  /\ dir_exists = TRUE
  /\ files = <<>>
  /\ now = 0
  /\ last = Call("new", <<>>, Ok("-"), None)
  /\ stored = <<>>
  /\ ppc = "idle"
  /\ tree = {}
  /\ unreadable = {}
  /\ scan = [ok |-> FALSE, files |-> <<>>]
  /\ projects = <<>>
  /\ lock = "free"
  /\ thr = <<>>
  /\ order = <<>>
  /\ apc = "idle"
  /\ app_in = <<>>
  /\ app_out = <<>>
  /\ term = <<>>
  /\ xp = <<>>

\* a restart that keeps the index of the process before it
New_KeepsIndex ==
  /\ enabled' = TRUE
  /\ dir_exists' = TRUE
  /\ index' = index
  /\ last' = Call("new", <<>>, Ok("-"), None)
  /\ UNCHANGED <<pvars, tvars, avars, qpc, raw, subject, query, result, keys, files, now, stored>>

\* Cache::new in a new process over the same cache directory
New ==
  /\ enabled' = TRUE
  /\ dir_exists' = TRUE
  /\ index' = IF dir_exists /\ path(CACHE_INDEX_KEY) \in DOMAIN files
              THEN DeserializeIndex(files[path(CACHE_INDEX_KEY)]).data
              ELSE EmptyIndex
  /\ last' = Call("new", <<>>, Ok("-"), None)
  /\ UNCHANGED <<pvars, tvars, avars, qpc, raw, subject, query, result, keys, files, now, stored>>

\* Cache::enable
Enable ==
  /\ enabled' = TRUE
  /\ last' = Call("enable", <<>>, Ok("-"), None)
  /\ UNCHANGED <<pvars, tvars, avars, qpc, raw, subject, query, result, keys, index, dir_exists, files, now, stored>>

\* Cache::disable
Disable ==
  /\ enabled' = FALSE
  /\ last' = Call("disable", <<>>, Ok("-"), None)
  /\ UNCHANGED <<pvars, tvars, avars, qpc, raw, subject, query, result, keys, index, dir_exists, files, now, stored>>

\* Cache::load(key)
Load(key) ==
  /\ last' = Call("load", key, load(key), None)
  /\ UNCHANGED <<pvars, tvars, avars, qpc, raw, subject, query, result, keys, enabled, index, dir_exists, files, now, stored>>

\* Cache::store(key, value)
Store(key, value) ==
  /\ files' = StoreFiles(key, value)
  /\ index' = StoreIndex(key)
  /\ stored' = StoreHistory(key, value)
  /\ last' = Call("store", key, StoreRet, None)
  /\ UNCHANGED <<pvars, tvars, avars, qpc, raw, subject, query, result, keys, enabled, dir_exists, now>>

\* Cache::load_store(key, action) when self.load returns early: a hit or an error
LoadStoreHit(key) ==
  /\ load(key).tag # "None"
  /\ last' = Call("load_store", key,
                  IF load(key).tag = "Some" THEN Ok(load(key).val) ELSE Err, None)
  /\ UNCHANGED <<pvars, tvars, avars, qpc, raw, subject, query, result, keys, enabled, index, dir_exists, files, now, stored>>

\* Cache::load_store(key, action) when action() fails
LoadStoreActionErr(key) ==
  /\ load(key).tag = "None"
  /\ last' = Call("load_store", key, Err, Err)
  /\ UNCHANGED <<pvars, tvars, avars, qpc, raw, subject, query, result, keys, enabled, index, dir_exists, files, now, stored>>

\* Cache::load_store(key, action) when action() returns Ok(value)
LoadStoreCompute(key, value) ==
  /\ load(key).tag = "None"
  /\ files' = StoreFiles(key, value)
  /\ index' = StoreIndex(key)
  /\ stored' = StoreHistory(key, value)
  /\ last' = Call("load_store", key,
                  IF StoreRet.tag = "Err" THEN Err ELSE Ok(value), Ok(value))
  /\ UNCHANGED <<pvars, tvars, avars, qpc, raw, subject, query, result, keys, enabled, dir_exists, now>>

\* Cache::shutdown, that is Cache::save_index
Shutdown ==
  /\ index' = IF enabled THEN [index EXCEPT !.written_at = now] ELSE index
  /\ files' = IF enabled /\ dir_exists
              THEN FsWrite(files, path(CACHE_INDEX_KEY), SerializeIndex(index'))
              ELSE files
  /\ stored' = IF enabled /\ dir_exists
               THEN [k \in DOMAIN stored |->
                       IF path(k) = path(CACHE_INDEX_KEY)
                       THEN [stored[k] EXCEPT !.intact = FALSE] ELSE stored[k]]
               ELSE stored
  /\ last' = Call("shutdown", <<>>, IF enabled /\ ~dir_exists THEN Err ELSE Ok("-"), None)
  /\ UNCHANGED <<pvars, tvars, avars, qpc, raw, subject, query, result, keys, enabled, dir_exists, now>>

\* Cache::clean: std::fs::remove_dir_all(base_dir)
Clean ==
  /\ dir_exists' = FALSE
  /\ files' = <<>>
  /\ stored' = IF dir_exists
               THEN [k \in DOMAIN stored |-> [stored[k] EXCEPT !.intact = FALSE]]
               ELSE stored
  /\ last' = Call("clean", <<>>, IF dir_exists THEN Ok("path") ELSE Err, None)
  /\ UNCHANGED <<pvars, tvars, avars, qpc, raw, subject, query, result, keys, enabled, index, now>>

\* a minute passes
Tick ==
  /\ now < MaxClock
  /\ now' = now + 1
  /\ last' = Call("tick", <<>>, Ok("-"), None)
  /\ UNCHANGED <<pvars, tvars, avars, qpc, raw, subject, query, result, keys, enabled, index, dir_exists, files, stored>>

CNext ==
  \/ New
  \/ Enable
  \/ Disable
  \/ \E key \in DOMAIN keys : Load(key)
  \/ \E key \in DOMAIN keys : \E value \in ValuesOf(keys[key]) : Store(key, value)
  \/ \E key \in DOMAIN keys : LoadStoreHit(key)
  \/ \E key \in DOMAIN keys : LoadStoreActionErr(key)
  \/ \E key \in DOMAIN keys : \E value \in ValuesOf(keys[key]) : LoadStoreCompute(key, value)
  \/ Shutdown
  \/ Clean
  \/ Tick

\* the cache store alone
Spec == Init /\ [][CNext]_vars

----------------------------------------------------------------------------
(* The query driver: parse an expression, then match one candidate *)

NoQuery == [ok |-> FALSE, expr |-> <<>>, parts |-> <<>>]

QInit ==
  /\ qpc = "input"
  /\ raw \in Strings(QueryAlphabet, MaxQueryLen)
  /\ subject \in Strings(ExprAlphabet, MaxExprLen)
  /\ query = NoQuery
  /\ result = "none"
  /\ keys = <<>>
  /\ enabled = TRUE
  /\ index = EmptyIndex
  /\ dir_exists = TRUE
  /\ files = <<>>
  /\ now = 0
  /\ last = Call("new", <<>>, Ok("-"), None)
  /\ stored = <<>>
  /\ ppc = "idle"
  /\ tree = {}
  /\ unreadable = {}
  /\ scan = [ok |-> FALSE, files |-> <<>>]
  /\ projects = <<>>
  /\ lock = "free"
  /\ thr = <<>>
  /\ order = <<>>
  /\ apc = "idle"
  /\ app_in = <<>>
  /\ app_out = <<>>
  /\ term = <<>>
  /\ xp = <<>>

Parse ==
  /\ qpc = "input"
  /\ query' = from_str(raw)
  /\ qpc' = IF query'.ok THEN "parsed" ELSE "error"
  /\ UNCHANGED <<raw, subject, result>>
  /\ UNCHANGED <<cvars, pvars, tvars, avars>>

Match ==
  /\ qpc = "parsed"
  /\ result' = matches(query.parts, subject)
  /\ qpc' = "matched"
  /\ UNCHANGED <<raw, subject, query>>
  /\ UNCHANGED <<cvars, pvars, tvars, avars>>

QNext == Parse \/ Match

\* the matcher alone: a pure function of (expression, candidate)
SpecQuery == QInit /\ [][QNext]_vars

----------------------------------------------------------------------------
(* Vocabulary of the statements about the matcher *)

IsAscii(s) == \A i \in 1..Len(s) : Utf8Len(s[i]) = 1

\* a literal run: no wildcard character, and nothing str::trim would strip
IsLiteral(s) == \A i \in 1..Len(s) : s[i] \notin Wildcards /\ ~IsWhitespace(s[i])

EqIgnoreAsciiCase(a, b) ==
  /\ Len(a) = Len(b)
  /\ \A i \in 1..Len(a) : ToAsciiLowercase(a[i]) = ToAsciiLowercase(b[i])

\* s holds lit at character offset off (0-based), case-insensitively
OccursAt(s, lit, off) ==
  /\ off + Len(lit) <= Len(s)
  /\ EqIgnoreAsciiCase(SubSeq(s, off + 1, off + Len(lit)), lit)

Contains(s, lit) == \E off \in 0..Len(s) : OccursAt(s, lit, off)
StartsWith(s, lit) == OccursAt(s, lit, 0)
EndsWith(s, lit) == Len(lit) <= Len(s) /\ OccursAt(s, lit, Len(s) - Len(lit))

AsBool(b) == IF b THEN "true" ELSE "false"

\* the expression is a non-empty literal followed by the wildcard w
IsLiteralThen(expr, w) ==
  /\ Len(expr) >= 2
  /\ expr[Len(expr)] = w
  /\ IsLiteral(SubSeq(expr, 1, Len(expr) - 1))

Front(s) == SubSeq(s, 1, Len(s) - 1)

\* C1: for a literal L without wildcards, Query(L).matches(L') is true for
\* every L' equal to L up to ASCII letter case.
C1_LiteralMatchesItself ==
  (qpc = "matched" /\ (\A i \in 1..Len(raw) : raw[i] \notin Wildcards)
     /\ EqIgnoreAsciiCase(subject, raw))
    => result = "true"

\* C1 on ASCII literals that str::trim leaves alone: there the statement holds
C1_AsciiLiteralMatchesItself ==
  (qpc = "matched" /\ IsLiteral(raw) /\ IsAscii(raw) /\ EqIgnoreAsciiCase(subject, raw))
    => result = "true"

\* C2: for a non-empty literal L, the query *L* matches s if and only if s
\* contains L as a case-insensitive substring.
C2_StarLiteralStar ==
  (qpc = "matched" /\ Len(raw) >= 3 /\ raw[1] = "*" /\ raw[Len(raw)] = "*"
     /\ IsLiteral(SubSeq(raw, 2, Len(raw) - 1)))
    => result = AsBool(Contains(subject, SubSeq(raw, 2, Len(raw) - 1)))

\* C2 on ASCII candidates and literals
C2_AsciiStarLiteralStar ==
  (IsAscii(raw) /\ IsAscii(subject)) => C2_StarLiteralStar

\* C3: for a non-empty literal L, *L matches s if and only if s ends with L,
\* and L* matches s if and only if s starts with L (stated for ASCII
\* expressions and candidates).
C3_StarLiteralIsSuffix ==
  /\ (qpc = "matched" /\ IsAscii(raw) /\ IsAscii(subject)
        /\ Len(raw) >= 2 /\ raw[1] = "*" /\ IsLiteral(Tail(raw)))
       => result = AsBool(EndsWith(subject, Tail(raw)))
  /\ (qpc = "matched" /\ IsAscii(raw) /\ IsAscii(subject)
        /\ IsLiteralThen(raw, "*"))
       => result = AsBool(StartsWith(subject, Front(raw)))

\* the half of C3 that holds on ASCII input: L* matches exactly the candidates
\* that start with L
C3_AsciiLiteralStarIsPrefix ==
  (qpc = "matched" /\ IsAscii(raw) /\ IsAscii(subject)
     /\ IsLiteralThen(raw, "*"))
    => result = AsBool(StartsWith(subject, Front(raw)))

\* C4: for a literal L, the query L? matches exactly the candidates that equal
\* L or equal L followed by one arbitrary character.
C4_LiteralOptional ==
  (qpc = "matched" /\ IsLiteralThen(raw, "?"))
    => result = AsBool(/\ StartsWith(subject, Front(raw))
                       /\ Len(subject) <= Len(Front(raw)) + 1)

\* C4 on ASCII candidates and literals
C4_AsciiLiteralOptional ==
  (IsAscii(raw) /\ IsAscii(subject)) => C4_LiteralOptional

\* C5: for a literal L, L_ matches s if and only if s is L followed by exactly
\* one character, and L# matches s if and only if s is L followed by one or
\* more digits and nothing else.
C5_RequiredTokens ==
  /\ (qpc = "matched" /\ IsLiteralThen(raw, "_"))
       => result = AsBool(/\ StartsWith(subject, Front(raw))
                          /\ Len(subject) = Len(Front(raw)) + 1)
  /\ (qpc = "matched" /\ IsLiteralThen(raw, "#"))
       => result = AsBool(/\ StartsWith(subject, Front(raw))
                          /\ Len(subject) > Len(Front(raw))
                          /\ \A i \in Len(raw)..Len(subject) : IsNumeric(subject[i]))

\* C5 on ASCII candidates and literals
C5_AsciiRequiredTokens ==
  (IsAscii(raw) /\ IsAscii(subject)) => C5_RequiredTokens

\* C6: every candidate matched by a query that holds a Fixed part contains
\* that part's text, case-insensitively (stated for ASCII expressions and
\* candidates).
C6_MatchContainsLiteral ==
  (qpc = "matched" /\ result = "true" /\ IsAscii(raw) /\ IsAscii(subject))
    => \A i \in 1..Len(query.parts) :
         query.parts[i].kind = "Fixed" => Contains(subject, query.parts[i].s)

----------------------------------------------------------------------------
(* Vocabulary of the statements about the cache store *)

InIndex(key) == key \in DOMAIN index.write_times

\* now < write_time + TTL for an indexed key
Fresh(key) == InIndex(key) /\ now < index.write_times[key] + CACHE_BUST_THRESHOLD

\* now >= write_time + TTL for an indexed key
Stale(key) == InIndex(key) /\ now >= index.write_times[key] + CACHE_BUST_THRESHOLD

HasPayload(key) == dir_exists /\ path(key) \in DOMAIN files

\* the last call was load(key) on an enabled store, within the TTL of a value
\* written under key
LoadWithinTtl ==
  /\ last.op = "load"
  /\ enabled
  /\ last.key \in DOMAIN stored
  /\ Fresh(last.key)

\* C7 as stated: on an enabled store, every load(key) made within the TTL
\* after store(key, v), with no store to that key in between, returns v.
C7_LoadReturnsStored ==
  LoadWithinTtl => last.ret = Some(stored[last.key].val)

\* C7 amended: ... returns v as long as nothing rewrote or removed the key's
\* payload file in between (no store to a key with the same file name, no
\* clean(), no shutdown() onto that file).
C7_LoadReturnsStoredWhileIntact ==
  (LoadWithinTtl /\ stored[last.key].intact)
    => last.ret = Some(stored[last.key].val)

\* a load, minutes after the store, that returned the stored value
C7_Witness ==
  /\ LoadWithinTtl
  /\ stored[last.key].intact
  /\ now > index.write_times[last.key]
  /\ last.ret = Some(stored[last.key].val)

\* C8: once now >= write_time + TTL, load(key) returns nothing and deletes
\* neither the payload nor the index entry, and a get_or_compute whose compute
\* returns a value writes it as the payload, sets the key's timestamp to now and
\* returns it, so that a following load(key) returns the new value.
C8_ExpiryAndRecompute ==
  [][\A key \in DOMAIN keys :
       (enabled /\ Stale(key) /\ last'.key = key) =>
         /\ last'.op = "load" =>
              /\ last'.ret = None
              /\ files' = files /\ dir_exists' = dir_exists /\ index' = index
         /\ (last'.op = "load_store" /\ last'.computed # Err) =>
              /\ last'.computed.tag = "Ok"
              /\ last'.ret = last'.computed
              /\ HasPayload(key)'
              /\ files'[path(key)] = Serialize(last'.computed.val)
              /\ index'.write_times[key] = now'
              /\ load(key)' = Some(last'.computed.val)]_vars

\* whether load_store(key) finds nothing to reuse: the three cases of C9
Miss(key) == ~InIndex(key) \/ Stale(key) \/ ~HasPayload(key)

\* C9 as stated: an enabled load_store invokes compute exactly in the three
\* miss cases, and in every other case returns the deserialized payload,
\* without invoking compute and without touching the key's timestamp.
C9_ComputeExactlyOnMiss ==
  [][\A key \in DOMAIN keys :
       (enabled /\ last'.op = "load_store" /\ last'.key = key) =>
         /\ (last'.computed # None) <=> Miss(key)
         /\ ~Miss(key) =>
              /\ last'.ret = Ok(files[path(key)].data)
              /\ index' = index]_vars

\* C9 amended: ... in every other case it does not invoke compute, leaves the
\* index alone, and returns the deserialized payload, or the hard error of
\* load when the payload file does not deserialize as the requested type.
C9_ComputeExactlyOnMissOrError ==
  [][\A key \in DOMAIN keys :
       (enabled /\ last'.op = "load_store" /\ last'.key = key) =>
         /\ (last'.computed # None) <=> Miss(key)
         /\ ~Miss(key) =>
              /\ last'.ret = IF Deserialize(files[path(key)], keys[key]).ok
                             THEN Ok(Deserialize(files[path(key)], keys[key]).data)
                             ELSE Err
              /\ index' = index]_vars

\* a load_store that reused a payload written minutes before
C9_Witness ==
  /\ last.op = "load_store"
  /\ enabled
  /\ last.computed = None
  /\ last.ret.tag = "Ok"
  /\ Fresh(last.key)
  /\ now > index.write_times[last.key]

\* C10: while the store is disabled every load_store invokes compute and
\* returns its result, load returns nothing, and load, store, load_store and
\* shutdown leave the cache directory and the in-memory index unchanged, also
\* for keys that have a fresh entry.
C10_DisabledStoreIsInert ==
  [][(~enabled /\ last'.op \in {"load", "store", "load_store", "shutdown"}) =>
       /\ files' = files /\ dir_exists' = dir_exists /\ index' = index
       /\ last'.op = "load" => last'.ret = None
       /\ last'.op = "load_store" =>
            /\ last'.computed # None
            /\ last'.ret = last'.computed]_vars

\* a load_store on a disabled store for a key whose entry is fresh and on disk
C10_Witness ==
  /\ ~enabled
  /\ last.op = "load_store"
  /\ last.computed.tag = "Ok"
  /\ Fresh(last.key)
  /\ HasPayload(last.key)
  /\ Deserialize(files[path(last.key)], keys[last.key]).ok
  /\ files[path(last.key)].data # last.computed.val

----------------------------------------------------------------------------
(* Restart: what a new instance finds in the cache directory *)

\* the index a new instance loads: the one in the index file, if it is there
\* and deserializes
PersistedIndex ==
  IF dir_exists /\ path(CACHE_INDEX_KEY) \in DOMAIN files
  THEN DeserializeIndex(files[path(CACHE_INDEX_KEY)]).data
  ELSE EmptyIndex

Persisted(key) == key \in DOMAIN PersistedIndex.write_times

\* the key's entry in memory is the one in the index file: a shutdown wrote it
\* after the last store to the key
Saved(key) ==
  /\ InIndex(key)
  /\ Persisted(key)
  /\ PersistedIndex.write_times[key] = index.write_times[key]

\* the key's entry in memory is not in the index file: no shutdown wrote the
\* index after the last store to the key
Unsaved(key) == InIndex(key) /\ ~Saved(key)

\* C11 as stated: a new instance has no index entry for a key stored with no
\* later shutdown, so load(key) returns nothing although the payload file is
\* still there; for a key stored and then saved by shutdown, a new instance
\* started within the TTL returns the stored value from load(key).
C11_RestartSeesOnlySavedIndex ==
  [][last'.op = "new" =>
       \A key \in DOMAIN keys :
         /\ Unsaved(key) =>
              /\ ~InIndex(key)'
              /\ load(key)' = None
              /\ stored[key].intact => HasPayload(key)'
         /\ (Saved(key) /\ Fresh(key)) =>
              load(key)' = Some(stored[key].val)]_vars

\* C11 amended: a key stored with no later shutdown has in the new instance
\* the entry an earlier shutdown left in the index file, and none (load
\* returns nothing, the payload file still there) if there is no such entry;
\* a key stored and saved is loaded by a new instance within the TTL with the
\* stored value if its payload file was not rewritten or removed in between.
C11_RestartSeesPersistedIndex ==
  [][last'.op = "new" =>
       \A key \in DOMAIN keys :
         /\ (Unsaved(key) /\ Persisted(key)) =>
              /\ InIndex(key)'
              /\ index'.write_times[key] = PersistedIndex.write_times[key]
         /\ (Unsaved(key) /\ ~Persisted(key)) =>
              /\ ~InIndex(key)'
              /\ load(key)' = None
              /\ stored[key].intact => HasPayload(key)'
         /\ (Saved(key) /\ Fresh(key) /\ stored[key].intact) =>
              load(key)' = Some(stored[key].val)]_vars

\* a new instance, minutes after the stores, that loads one key's value through
\* the saved index and has lost the entry of another key whose file is there
C11_Witness ==
  /\ last.op = "new"
  /\ \E key \in DOMAIN keys :
       /\ key \in DOMAIN stored
       /\ stored[key].intact
       /\ Fresh(key)
       /\ now > index.write_times[key]
       /\ load(key) = Some(stored[key].val)
  /\ \E key \in DOMAIN keys :
       /\ key \in DOMAIN stored
       /\ ~InIndex(key)
       /\ HasPayload(key)

\* C12: on an enabled store a load_store on a key whose entry is absent, stale
\* or without payload file, and whose compute succeeds, returns compute's value
\* and no error.
C12_MissNeverAnError ==
  [][\A key \in DOMAIN keys :
       (enabled /\ last'.op = "load_store" /\ last'.key = key /\ Miss(key)
          /\ last'.computed.tag = "Ok")
         => last'.ret = last'.computed]_vars

----------------------------------------------------------------------------
(* Folder scanning and project detection of src/lib/project.rs.  A path is *)
(* its sequence of components.                                             *)

\* the scanned folder
ScanRoot == <<"r">>

\* the files a tree may hold below the scanned folder
FileUniverse ==
  { <<"r", "a", "Cargo.toml">>,
    <<"r", "a", "package.json">>,
    <<"r", "a", "main.rs">>,
    <<"r", "a", "b", "go.mod">>,
    <<"r", "ab", "CARGO.TOML">>,
    <<"r", "b", "build.x">>,
    <<"r", "target", "Cargo.toml">>,
    <<"r", ".x", "main.rs">> }

\* the directories std::fs::read_dir may fail on
DirUniverse == { <<"r", "a", "b">>, <<"r", ".x">> }

\* the largest number of files of a tree
MaxFiles == 5

Parent(p) == SubSeq(p, 1, Len(p) - 1)
FileName(p) == p[Len(p)]

IsPathPrefix(d, p) == Len(d) <= Len(p) /\ SubSeq(p, 1, Len(d)) = d

\* FolderScan::DIR_EXCLUSIONS
DIR_EXCLUSIONS == {".git", "node_modules", "target", "vendor"}

\* str::starts_with("."), on the directory names of the universe
StartsWithDot(name) == name \in {".x", ".git"}

\* the names std::fs::read_dir(dir) yields
Entries(dir) ==
  {p[Len(dir) + 1] : p \in {q \in tree : IsPathPrefix(dir, q) /\ Len(q) > Len(dir)}}

\* e.file_type()?.is_dir()
IsDir(dir, name) ==
  \E p \in tree : IsPathPrefix(Append(dir, name), p) /\ Len(p) > Len(dir) + 1

\* a scan that skips the excluded names only
Pruned_OnlyExclusions(name) == name \in DIR_EXCLUSIONS

\* whether scan_folder skips the directory entry
Pruned(name) == name \in DIR_EXCLUSIONS \/ StartsWithDot(name)

RECURSIVE ScanFails(_)
\* whether scan_folder(dir) returns the error of a read_dir below it
ScanFails(dir) ==
  \/ dir \in unreadable
  \/ \E name \in Entries(dir) :
       IsDir(dir, name) /\ ~Pruned(name) /\ ScanFails(Append(dir, name))

RECURSIVE ScanEntries(_, _)
\* the file lists scan_folder(dir) can build from the entries left, read_dir
\* yielding them in any order
ScanEntries(dir, left) ==
  IF left = {} THEN {<<>>}
  ELSE UNION {
         LET heads == IF ~IsDir(dir, name) THEN {<<Append(dir, name)>>}
                      ELSE IF Pruned(name) THEN {<<>>}
                      ELSE ScanEntries(Append(dir, name), Entries(Append(dir, name)))
         IN {h \o t : h \in heads, t \in ScanEntries(dir, left \ {name})}
         : name \in left }

\* a scan that skips the directories it cannot list
scan_folder_SkipsUnreadable(dir) ==
  {[ok |-> TRUE, files |-> fs] : fs \in ScanEntries(dir, Entries(dir))}

\* FolderScan::scan_folder: the possible results
scan_folder(dir) ==
  IF ScanFails(dir) THEN {[ok |-> FALSE, files |-> <<>>]}
  ELSE {[ok |-> TRUE, files |-> fs] : fs \in ScanEntries(dir, Entries(dir))}

(* detect_projects *)

\* ProjectKind::iter(): the variants in order, Custom with its default fields
BuiltinKinds == <<"Rust", "Go", "C", "Node", "Maven", "Other", "">>

\* the custom kinds of the configuration (general.project_kinds)
CustomKinds == <<"Xlang">>

\* ProjectKind::project_files
project_files(kind) ==
  CASE kind = "Rust" -> <<"Cargo.toml", "Cargo.lock">>
    [] kind = "Go" -> <<"go.mod">>
    [] kind = "C" -> <<"Makefile", "CMakeLists.txt">>
    [] kind = "Node" -> <<"package.json", "package.lock">>
    [] kind = "Maven" -> <<"pom.xml">>
    [] kind = "Other" -> <<"README.md", "LICENSE.md", "CONTRIBUTING.md">>
    [] kind = "Xlang" -> <<"build.x">>
    [] OTHER -> <<>>

\* str::to_ascii_lowercase, on the file names of the universe
NameLower(name) ==
  CASE name \in {"Cargo.toml", "CARGO.TOML"} -> "cargo.toml"
    [] name = "Cargo.lock" -> "cargo.lock"
    [] name = "Makefile" -> "makefile"
    [] name = "CMakeLists.txt" -> "cmakelists.txt"
    [] name = "README.md" -> "readme.md"
    [] name = "LICENSE.md" -> "license.md"
    [] name = "CONTRIBUTING.md" -> "contributing.md"
    [] OTHER -> name

\* the characters of a path component; a file name counts as one character,
\* none of them starts like a directory name
Chars(name) == IF name = "ab" THEN <<"a", "b">> ELSE <<name>>

RECURSIVE Display(_)
\* Path::display: the components joined by the separator
Display(p) ==
  IF Len(p) = 0 THEN <<>>
  ELSE IF Len(p) = 1 THEN Chars(p[1])
  ELSE Display(Parent(p)) \o <<"/">> \o Chars(p[Len(p)])

\* find_project_root(path, roots).is_some(): some root's string is a prefix
\* of the path's string, ASCII case ignored
find_project_root(file, roots) ==
  \E root \in DOMAIN roots :
    LET r == Display(root)
        f == Display(file)
    IN /\ Len(f) >= Len(r)
       /\ \A i \in 1..Len(r) : ToAsciiLowercase(f[i]) = ToAsciiLowercase(r[i])

\* HashMap::entry(k).or_insert_with(|| vec![]).push(v)
EntryPush(map, k, v) ==
  [x \in DOMAIN map \cup {k} |->
     IF x = k THEN (IF k \in DOMAIN map THEN Append(map[k], v) ELSE <<v>>)
     ELSE map[x]]

\* HashMap::entry(k).or_insert_with(|| vec![])
EntryOrEmpty(map, k) ==
  [x \in DOMAIN map \cup {k} |-> IF x \in DOMAIN map THEN map[x] ELSE <<>>]

\* the state of the pass: the three maps and the custom kinds not yet drained
DetectInit(custom_kinds) ==
  [project_roots |-> <<>>, project_files |-> <<>>,
   project_source_files |-> <<>>, custom_kinds |-> custom_kinds]

\* a pass that takes the directory above the marker file's as the root
MarkRoot_DirectoryAbove(st, file, kind) ==
  [st EXCEPT
     !.project_roots = EntryPush(@, Parent(Parent(file)), kind),
     !.project_files = EntryPush(@, Parent(Parent(file)), file),
     !.project_source_files = EntryOrEmpty(@, Parent(Parent(file)))]

\* the body of `if fname.eq_ignore_ascii_case(project_file)`
MarkRoot(st, file, kind) ==
  [st EXCEPT
     !.project_roots = EntryPush(@, Parent(file), kind),
     !.project_files = EntryPush(@, Parent(file), file),
     !.project_source_files = EntryOrEmpty(@, Parent(file))]

RECURSIVE MatchProjectFiles(_, _, _, _, _)
\* the loop over kind.project_files()
MatchProjectFiles(st, file, kind, names, i) ==
  IF i > Len(names) THEN st
  ELSE MatchProjectFiles(
         IF NameLower(FileName(file)) = NameLower(names[i])
         THEN MarkRoot(st, file, kind) ELSE st,
         file, kind, names, i + 1)

RECURSIVE MatchKinds(_, _, _, _)
\* the loop over kinds
MatchKinds(st, file, kinds, i) ==
  IF i > Len(kinds) THEN st
  ELSE MatchKinds(MatchProjectFiles(st, file, kinds[i], project_files(kinds[i]), 1),
                  file, kinds, i + 1)

\* one iteration of the loop over scan.files
DetectFile(st, file) ==
  IF find_project_root(file, st.project_roots)
  THEN [st EXCEPT !.project_source_files = EntryPush(@, file, file)]
  ELSE MatchKinds([st EXCEPT !.custom_kinds = <<>>], file,
                  BuiltinKinds \o st.custom_kinds, 1)

RECURSIVE DetectLoop(_, _, _)
\* the loop over scan.files
DetectLoop(st, fs, i) ==
  IF i > Len(fs) THEN st ELSE DetectLoop(DetectFile(st, fs[i]), fs, i + 1)

\* Project::new
Project(root, kinds, source_files, pfiles) ==
  [path |-> root, kinds |-> kinds, source_files |-> source_files,
   project_files |-> pfiles]

\* the orders in which a HashMap can yield the keys
Orders(S) == {o \in [1..Cardinality(S) -> S] : \A i, j \in DOMAIN o : o[i] = o[j] => i = j}

\* detect_projects: the possible results, one for each order in which the
\* final loop can go through project_roots
detect_projects(fs, custom_kinds) ==
  LET st == DetectLoop(DetectInit(custom_kinds), fs, 1) IN
  { [i \in DOMAIN o |->
       Project(o[i], st.project_roots[o[i]], st.project_source_files[o[i]],
               st.project_files[o[i]])]
    : o \in Orders(DOMAIN st.project_roots) }

\* the state before a tree is scanned
PInit ==
  /\ ppc = "tree"
  /\ tree \in {t \in SUBSET FileUniverse : Cardinality(t) <= MaxFiles}
  /\ unreadable \in {{}} \cup {{d} : d \in {e \in DirUniverse : \E f \in tree : IsPathPrefix(e, f)}}
  /\ scan = [ok |-> FALSE, files |-> <<>>]
  /\ projects = <<>>
  /\ lock = "free"
  /\ thr = <<>>
  /\ order = <<>>
  /\ apc = "idle"
  /\ app_in = <<>>
  /\ app_out = <<>>
  /\ term = <<>>
  /\ xp = <<>>
  /\ qpc = "idle"
  /\ raw = <<>>
  /\ subject = <<>>
  /\ query = NoQuery
  /\ result = "none"
  /\ keys = <<>>
  /\ enabled = TRUE
  /\ index = EmptyIndex
  /\ dir_exists = TRUE
  /\ files = <<>>
  /\ now = 0
  /\ last = Call("new", <<>>, Ok("-"), None)
  /\ stored = <<>>

\* FolderScan::new(ScanRoot)
ScanFolder ==
  /\ ppc = "tree"
  /\ scan' \in scan_folder(ScanRoot)
  /\ ppc' = IF scan'.ok THEN "scanned" ELSE "failed"
  /\ UNCHANGED <<tree, unreadable, projects>>
  /\ UNCHANGED <<qvars, cvars, tvars, avars>>

\* detect_projects(&scan, custom_kinds)
DetectProjects ==
  /\ ppc = "scanned"
  /\ projects' \in detect_projects(scan.files, CustomKinds)
  /\ ppc' = "detected"
  /\ UNCHANGED <<tree, unreadable, scan>>
  /\ UNCHANGED <<qvars, cvars, tvars, avars>>

PNext == ScanFolder \/ DetectProjects

\* scanning a folder and classifying its files
SpecProjects == PInit /\ [][PNext]_vars

----------------------------------------------------------------------------
(* Vocabulary of the statements about scanning and detection *)

Range(seq) == {seq[i] : i \in DOMAIN seq}

ActiveKinds == Range(BuiltinKinds) \cup Range(CustomKinds)

\* the file is a marker file of the kind
IsMarker(file, kind) ==
  \E i \in DOMAIN project_files(kind) :
    NameLower(FileName(file)) = NameLower(project_files(kind)[i])

\* the scanned marker files directly inside dir
MarkersIn(dir) ==
  {f \in Range(scan.files) : Parent(f) = dir /\ \E kind \in ActiveKinds : IsMarker(f, kind)}

\* the kinds that have a marker file directly inside dir
KindsIn(dir) ==
  {kind \in ActiveKinds : \E f \in MarkersIn(dir) : IsMarker(f, kind)}

\* the directories that directly contain a scanned marker file
MarkerDirs == {Parent(f) : f \in {g \in Range(scan.files) : MarkersIn(Parent(g)) # {}}}

\* dir lies inside another directory that holds a marker file
InsideAnotherRoot(dir) ==
  \E d \in MarkerDirs : d # dir /\ IsPathPrefix(d, dir)

ProjectsAt(dir) == {i \in DOMAIN projects : projects[i].path = dir}

\* C13: every directory that directly contains a marker file of exactly one
\* kind and lies inside no other project root is in the output of
\* detect_projects as a Project with that root and exactly that kind.
C13_SingleKindRootDetected ==
  ppc = "detected" =>
    \A dir \in MarkerDirs :
      (Cardinality(KindsIn(dir)) = 1 /\ ~InsideAnotherRoot(dir)) =>
        \E i \in ProjectsAt(dir) : Range(projects[i].kinds) = KindsIn(dir)

\* C14: a directory that directly contains marker files of two different
\* kinds gives exactly one Project rooted there, with both kinds and both
\* marker files.
C14_TwoKindsOneProject ==
  ppc = "detected" =>
    \A dir \in MarkerDirs :
      (Cardinality(KindsIn(dir)) = 2 /\ ~InsideAnotherRoot(dir)) =>
        /\ Cardinality(ProjectsAt(dir)) = 1
        /\ \A i \in ProjectsAt(dir) :
             /\ KindsIn(dir) \subseteq Range(projects[i].kinds)
             /\ MarkersIn(dir) \subseteq Range(projects[i].project_files)

\* C15: in the output of detect_projects no two Projects have the same root,
\* every Project has at least one kind and at least one marker file, and every
\* marker file of a Project lies directly inside its root.
C15_ProjectsWellFormed ==
  ppc = "detected" =>
    /\ \A i, j \in DOMAIN projects : projects[i].path = projects[j].path => i = j
    /\ \A i \in DOMAIN projects :
         /\ Len(projects[i].kinds) >= 1
         /\ Len(projects[i].project_files) >= 1
         /\ \A f \in Range(projects[i].project_files) : Parent(f) = projects[i].path

\* a pass that found two projects, one of them below the other
C15_Witness ==
  /\ ppc = "detected"
  /\ \E i, j \in DOMAIN projects :
       /\ projects[i].path # projects[j].path
       /\ IsPathPrefix(projects[i].path, projects[j].path)

\* the directory components of a file below the scanned folder
DirComponents(f) == {f[i] : i \in (Len(ScanRoot) + 1)..(Len(f) - 1)}

C20_FilesAttachedToRoot ==
  ppc = "detected" =>
    \A i \in DOMAIN projects :
      \A j, k \in DOMAIN scan.files :
        (/\ j < k
         /\ scan.files[j] \in Range(projects[i].project_files)
         /\ IsPathPrefix(projects[i].path, scan.files[k]))
          => scan.files[k] \in Range(projects[i].source_files)

----------------------------------------------------------------------------
(* In-process callers of the global store: cache().lock().unwrap().load_store(..) *)

\* the callers
Threads == {"t1", "t2"}

\* the positions of a caller that holds the MutexGuard
InCall == {"locked", "miss", "computed", "returned"}

\* two callers before their calls, the store as Cache::new left it
TInit ==
  /\ lock = "free"
  /\ thr = [t \in Threads |->
              [pc |-> "idle", key |-> <<>>, computed |-> None, ret |-> None, raced |-> FALSE]]
  /\ order = <<>>
  /\ keys \in KeySets
  /\ enabled = TRUE
  /\ index = EmptyIndex
  /\ dir_exists = TRUE
  /\ files = <<>>
  /\ now = 0
  /\ last = Call("new", <<>>, Ok("-"), None)
  /\ stored = <<>>
  /\ qpc = "idle"
  /\ raw = <<>>
  /\ subject = <<>>
  /\ query = NoQuery
  /\ result = "none"
  /\ ppc = "idle"
  /\ tree = {}
  /\ unreadable = {}
  /\ scan = [ok |-> FALSE, files |-> <<>>]
  /\ projects = <<>>
  /\ apc = "idle"
  /\ app_in = <<>>
  /\ app_out = <<>>
  /\ term = <<>>
  /\ xp = <<>>

\* a caller starts cache().lock().unwrap().load_store(key, ..)
TCall(t, key) ==
  /\ thr[t].pc = "idle"
  /\ thr' = [thr EXCEPT
               ![t].pc = "waiting", ![t].key = key,
               ![t].raced = \E u \in Threads \ {t} : thr[u].pc \in {"waiting"} \cup InCall]
  /\ UNCHANGED <<lock, order, cvars, qvars, pvars, avars>>

\* a caller that takes the lock whether it is free or not
TLock_NoWait(t) ==
  /\ thr[t].pc = "waiting"
  /\ lock' = t
  /\ order' = Append(order, t)
  /\ thr' = [thr EXCEPT ![t].pc = "locked"]
  /\ UNCHANGED <<cvars, qvars, pvars, avars>>

\* Mutex::lock returns the guard
TLock(t) ==
  /\ thr[t].pc = "waiting"
  /\ lock = "free"
  /\ lock' = t
  /\ order' = Append(order, t)
  /\ thr' = [thr EXCEPT ![t].pc = "locked"]
  /\ UNCHANGED <<cvars, qvars, pvars, avars>>

\* load_store: self.load(key)?, returning on a hit or an error
TLoad(t) ==
  /\ thr[t].pc = "locked"
  /\ LET l == load(thr[t].key) IN
     IF l.tag = "None"
     THEN /\ thr' = [thr EXCEPT ![t].pc = "miss"]
          /\ UNCHANGED last
     ELSE /\ thr' = [thr EXCEPT ![t].pc = "returned",
                                ![t].ret = IF l.tag = "Some" THEN Ok(l.val) ELSE Err]
          /\ last' = Call("load_store", thr[t].key, thr'[t].ret, None)
  /\ UNCHANGED <<lock, order, keys, enabled, index, dir_exists, files, now, stored>>
  /\ UNCHANGED <<qvars, pvars, avars>>

\* load_store: action()?
TAction(t, outcome) ==
  /\ thr[t].pc = "miss"
  /\ IF outcome = Err
     THEN /\ thr' = [thr EXCEPT ![t].pc = "returned", ![t].computed = Err, ![t].ret = Err]
          /\ last' = Call("load_store", thr[t].key, Err, Err)
     ELSE /\ thr' = [thr EXCEPT ![t].pc = "computed", ![t].computed = outcome]
          /\ UNCHANGED last
  /\ UNCHANGED <<lock, order, keys, enabled, index, dir_exists, files, now, stored>>
  /\ UNCHANGED <<qvars, pvars, avars>>

\* load_store: self.store(key, &entity)?; Ok(entity)
TStore(t) ==
  /\ thr[t].pc = "computed"
  /\ files' = StoreFiles(thr[t].key, thr[t].computed.val)
  /\ index' = StoreIndex(thr[t].key)
  /\ stored' = StoreHistory(thr[t].key, thr[t].computed.val)
  /\ thr' = [thr EXCEPT ![t].pc = "returned",
                        ![t].ret = IF StoreRet.tag = "Err" THEN Err ELSE thr[t].computed]
  /\ last' = Call("load_store", thr[t].key, thr'[t].ret, thr[t].computed)
  /\ UNCHANGED <<lock, order, keys, enabled, dir_exists, now>>
  /\ UNCHANGED <<qvars, pvars, avars>>

\* the MutexGuard is dropped at the end of the statement
TUnlock(t) ==
  /\ thr[t].pc = "returned"
  /\ lock' = "free"
  /\ thr' = [thr EXCEPT ![t].pc = "done"]
  /\ UNCHANGED <<order, cvars, qvars, pvars, avars>>

TNext ==
  \/ \E t \in Threads : \E key \in DOMAIN keys : TCall(t, key)
  \/ \E t \in Threads : TLock(t)
  \/ \E t \in Threads : TLoad(t)
  \/ \E t \in {u \in Threads : thr[u].pc = "miss"} :
       \E outcome \in {Err} \cup {Ok(v) : v \in ValuesOf(keys[thr[t].key])} :
         TAction(t, outcome)
  \/ \E t \in Threads : TStore(t)
  \/ \E t \in Threads : TUnlock(t)

\* two callers of load_store on the global store
SpecConcurrent == TInit /\ [][TNext]_vars

BothDone == \A t \in Threads : thr[t].pc = "done"

SameKey == \A t, u \in Threads : thr[t].key = thr[u].key

\* at most one caller is inside load_store, and it is the one holding the lock
Serialized ==
  /\ Cardinality({t \in Threads : thr[t].pc \in InCall}) <= 1
  /\ \A t \in Threads : thr[t].pc \in InCall <=> lock = t

----------------------------------------------------------------------------
(* The application of src/lib/app.rs.  A discovered project is followed    *)
(* by its path only, a sequence of components, which is all match_projects *)
(* reads; what the two load_store calls of list_projects return for a      *)
(* configured folder is an input.                                          *)

MaxFolders == 2

\* the projects that a configured folder can hold
ProjectPaths == { << <<"a">>, <<"a", "1">> >>, << <<"a">>, <<"A">> >> }

\* what list_projects gets for one folder: the error of a load_store, or the
\* projects detected below the folder
FolderResults ==
  {Err} \cup {Ok(o) : o \in UNION {Orders(S) : S \in SUBSET ProjectPaths}}

\* the query arguments that clap's parse_query accepts
QueryArgs == {<<"*">>, <<"a">>, <<"1">>, <<"a", "#">>}

\* Query::default()
DefaultQuery ==
  [ok |-> TRUE, expr |-> <<"*">>, parts |-> <<[kind |-> "AnyStr", s |-> <<>>]>>]

\* the command lines: --clean-cache is exclusive(true)
CommandLines ==
  { [list |-> l, dump_config |-> d, clean_cache |-> FALSE, no_cache |-> n,
     query |-> q, folders |-> fr] :
       l \in BOOLEAN, d \in BOOLEAN, n \in BOOLEAN, q \in QueryArgs,
       fr \in UNION {[1..k -> FolderResults] : k \in 0..MaxFolders} }
  \cup
  { [list |-> FALSE, dump_config |-> FALSE, clean_cache |-> TRUE, no_cache |-> FALSE,
     query |-> <<"*">>, folders |-> fr] :
       fr \in UNION {[1..k -> FolderResults] : k \in 0..MaxFolders} }

NoOutcome == [ret |-> "none", msg |-> "none", written |-> <<>>,
              cleaned |-> FALSE, shutdown |-> FALSE]

AInit ==
  /\ apc = "args"
  /\ app_in \in CommandLines
  /\ app_out = NoOutcome
  /\ term = <<>>
  /\ xp = <<>>
  /\ qpc = "idle"
  /\ raw = <<>>
  /\ subject = <<>>
  /\ query = NoQuery
  /\ result = "none"
  /\ keys = <<>>
  /\ enabled = TRUE
  /\ index = EmptyIndex
  /\ dir_exists = TRUE
  /\ files = <<>>
  /\ now = 0
  /\ last = Call("new", <<>>, Ok("-"), None)
  /\ stored = <<>>
  /\ ppc = "idle"
  /\ tree = {}
  /\ unreadable = {}
  /\ scan = [ok |-> FALSE, files |-> <<>>]
  /\ projects = <<>>
  /\ lock = "free"
  /\ thr = <<>>
  /\ order = <<>>

\* App::new: the options are parsed, the folders are checked, the store is
\* disabled under --no-cache, the query is kept
AppNew ==
  /\ apc = "args"
  /\ apc' = IF app_in.folders = <<>> THEN "init_error" ELSE "ready"
  /\ app_out' = IF app_in.folders = <<>>
                THEN [NoOutcome EXCEPT !.ret = "Err",
                                       !.msg = "No source code folders configured"]
                ELSE app_out
  /\ enabled' = IF app_in.folders # <<>> /\ app_in.no_cache THEN FALSE ELSE enabled
  /\ query' = IF app_in.folders = <<>> THEN query ELSE from_str(app_in.query)
  /\ UNCHANGED <<app_in, term, xp, qpc, raw, subject, result>>
  /\ UNCHANGED <<keys, index, dir_exists, files, now, last, stored>>
  /\ UNCHANGED <<pvars, tvars>>

\* Project::name: the last component of the path
ProjectName(p) == p[Len(p)]

\* the closure of match_projects: the name or any component matches
MatchesProject(q, p) ==
  \/ matches(q.parts, ProjectName(p)) = "true"
  \/ \E i \in DOMAIN p : matches(q.parts, p[i]) = "true"

RECURSIVE match_projects(_, _)
\* App::match_projects: the projects the query selects, in their order
match_projects(q, ps) ==
  IF ps = <<>> THEN <<>>
  ELSE (IF MatchesProject(q, Head(ps)) THEN <<Head(ps)>> ELSE <<>>)
         \o match_projects(q, Tail(ps))

\* App::list_projects: the map folder -> projects, or the first error
list_projects(folders) ==
  IF \E i \in DOMAIN folders : folders[i].tag = "Err" THEN Err
  ELSE Ok([i \in DOMAIN folders |-> folders[i].val])

RECURSIVE Flatten(_, _, _)
\* projects.iter().flat_map(|(_, projects)| projects), the map yielding its
\* folders in the order o
Flatten(map, o, i) ==
  IF i > Len(o) THEN <<>> ELSE map[o[i]] \o Flatten(map, o, i + 1)

\* App::run up to the call of shutdown, the map yielding its folders in the
\* order o
run(in, q, o) ==
  IF in.list /\ (q.expr # DefaultQuery.expr \/ q.parts # DefaultQuery.parts)
  THEN [NoOutcome EXCEPT !.ret = "Err", !.msg = "Query given with --list"]
  ELSE IF in.dump_config THEN [NoOutcome EXCEPT !.ret = "Ok"]
  ELSE IF in.clean_cache THEN [NoOutcome EXCEPT !.ret = "Ok", !.cleaned = TRUE]
  ELSE LET listed == list_projects(in.folders) IN
       IF listed.tag = "Err"
       THEN [NoOutcome EXCEPT !.ret = "Err", !.msg = "load_store"]
       ELSE IF DOMAIN listed.val = {}
       THEN [NoOutcome EXCEPT !.ret = "Err", !.msg = "no project root discovered"]
       ELSE LET all == Flatten(listed.val, o, 1)
                found == IF in.list THEN all ELSE match_projects(q, all)
            IN IF ~in.list /\ found = <<>>
               THEN [NoOutcome EXCEPT !.ret = "Err", !.msg = "no match found"]
               ELSE [NoOutcome EXCEPT !.ret = "Ok", !.written = found,
                                      !.shutdown = TRUE]

\* App::run, with what its calls of clean and of shutdown do to the store
Run ==
  /\ apc = "ready"
  /\ apc' = "done"
  /\ \E o \in Orders(DOMAIN app_in.folders) :
       LET out == run(app_in, query, o) IN
       /\ app_out' = [out EXCEPT !.ret = IF (out.cleaned /\ ~dir_exists)
                                            \/ (out.shutdown /\ enabled /\ ~dir_exists)
                                         THEN "Err" ELSE out.ret]
       /\ dir_exists' = IF out.cleaned THEN FALSE ELSE dir_exists
       /\ index' = IF out.shutdown /\ enabled
                   THEN [index EXCEPT !.written_at = now] ELSE index
       /\ files' = IF out.cleaned THEN <<>>
                   ELSE IF out.shutdown /\ enabled /\ dir_exists
                   THEN FsWrite(files, path(CACHE_INDEX_KEY), SerializeIndex(index'))
                   ELSE files
       /\ last' = IF out.cleaned
                  THEN Call("clean", <<>>, IF dir_exists THEN Ok("path") ELSE Err, None)
                  ELSE IF out.shutdown
                  THEN Call("shutdown", <<>>,
                            IF enabled /\ ~dir_exists THEN Err ELSE Ok("-"), None)
                  ELSE last
  /\ UNCHANGED <<app_in, term, xp, qpc, raw, subject, query, result>>
  /\ UNCHANGED <<keys, enabled, now, stored>>
  /\ UNCHANGED <<pvars, tvars>>

ANext == AppNew \/ Run

\* one run of the application
SpecApp == AInit /\ [][ANext]_vars

----------------------------------------------------------------------------
(* Vocabulary of the statements about the application *)

\* run went past its early returns and list_projects returned the map
Searched ==
  /\ apc = "done"
  /\ ~(app_in.list /\ app_in.query # <<"*">>)
  /\ ~app_in.dump_config
  /\ ~app_in.clean_cache
  /\ \A i \in DOMAIN app_in.folders : app_in.folders[i].tag = "Ok"

\* the projects discovered under the configured folders
Discovered ==
  UNION {Range(app_in.folders[i].val) : i \in DOMAIN app_in.folders}

\* C18: when no project was discovered under any configured folder, run
\* returns an error, in query mode and in --list mode alike; when projects
\* were discovered and none matches the query, run returns the error
\* "no match found"; in neither case does run return Ok
C18_NothingFoundIsAnError ==
  Searched =>
    /\ Discovered = {} => app_out.ret = "Err"
    /\ (/\ Discovered # {}
        /\ ~app_in.list
        /\ \A p \in Discovered : ~MatchesProject(query, p))
       => app_out.ret = "Err" /\ app_out.msg = "no match found"

----------------------------------------------------------------------------
(* Vocabulary of the statement about the search under AnyStr *)

RECURSIVE DigitsEnd(_, _)
\* the offset after the run of digits that starts at the offset pos
DigitsEnd(s, pos) ==
  IF pos < Len(s) /\ IsNumeric(s[pos + 1]) THEN DigitsEnd(s, pos + 1) ELSE pos

RECURSIVE RestMatches(_, _, _, _)
\* the tokens from the i-th on match s from the offset pos through its end,
\* for some choice of the offsets at which the AnyStr tokens stop: an offset
\* of the scan, pos <= j < Len(s), when a token follows, the end otherwise
RestMatches(parts, i, s, pos) ==
  IF i > Len(parts) THEN pos = Len(s)
  ELSE CASE parts[i].kind = "AnyStr" ->
              IF i = Len(parts) THEN TRUE
              ELSE \E j \in pos..(Len(s) - 1) : RestMatches(parts, i + 1, s, j)
         [] parts[i].kind = "OptionalChar" ->
              RestMatches(parts, i + 1, s, IF pos < Len(s) THEN pos + 1 ELSE pos)
         [] parts[i].kind = "RequiredChar" ->
              pos < Len(s) /\ RestMatches(parts, i + 1, s, pos + 1)
         [] parts[i].kind = "Integer" ->
              DigitsEnd(s, pos) > pos /\ RestMatches(parts, i + 1, s, DigitsEnd(s, pos))
         [] parts[i].kind = "Fixed" ->
              OccursAt(s, parts[i].s, pos)
              /\ RestMatches(parts, i + 1, s, pos + Len(parts[i].s))

\* an AnyStr token that another token follows
HasInnerAnyStr(parts) == \E i \in 1..(Len(parts) - 1) : parts[i].kind = "AnyStr"

\* C19: a query in which a token follows AnyStr matches the candidate whenever
\* some offset of the scan of each AnyStr lets all the remaining tokens match
\* in order through the end of the candidate, also when the token right after
\* AnyStr already matches at an earlier offset (stated for ASCII expressions
\* and candidates).
C19_StarFindsOffsetForRest ==
  (qpc = "matched" /\ IsAscii(raw) /\ IsAscii(subject)
     /\ HasInnerAnyStr(query.parts)
     /\ RestMatches(query.parts, 1, subject, 0))
    => result = "true"

----------------------------------------------------------------------------
(* Statements about the pass of detect_projects over the scan order *)

\* the directories of the marker files listed before the k-th file
EarlierMarkerDirs(k) ==
  {Parent(scan.files[j]) :
     j \in {x \in 1..(k - 1) : \E kind \in ActiveKinds : IsMarker(scan.files[x], kind)}}

\* the k-th file is under none of the roots the files before it can have
\* established, by the test of find_project_root
OutsideEarlierRoots(k) ==
  ~find_project_root(scan.files[k], [d \in EarlierMarkerDirs(k) |-> <<>>])

\* C21: a file that is under no known root is tested against the marker
\* files of the custom kinds too, wherever it stands in the scan order: a
\* custom kind's marker file makes its directory a project root with that
\* custom kind.
C21_CustomMarkerAtAnyPosition ==
  ppc = "detected" =>
    \A k \in DOMAIN scan.files :
      \A kind \in Range(CustomKinds) :
        (IsMarker(scan.files[k], kind) /\ OutsideEarlierRoots(k)) =>
          \E i \in ProjectsAt(Parent(scan.files[k])) : kind \in Range(projects[i].kinds)

\* the root paths of a result of detect_projects
RootsOf(ps) == {ps[i].path : i \in DOMAIN ps}

\* C26: for every other FolderScan of the same untouched tree, which lists
\* the same files in some other order, detect_projects returns the same set
\* of project root paths.
C26_RootsIndependentOfScanOrder ==
  ppc = "detected" =>
    \A other \in scan_folder(ScanRoot) :
      \A ps \in detect_projects(other.files, CustomKinds) :
        RootsOf(ps) = RootsOf(projects)

----------------------------------------------------------------------------
(* Statement about OptionalChar inside an expression *)

\* the candidate is l1 l2, or l1, one character, l2 (ASCII case ignored)
OptionalBetween(s, l1, l2) ==
  \/ EqIgnoreAsciiCase(s, l1 \o l2)
  \/ /\ Len(s) = Len(l1) + Len(l2) + 1
     /\ StartsWith(s, l1)
     /\ EndsWith(s, l2)

\* C25: for non-empty literals L1 and L2, the query L1?L2 matches L1L2, the
\* optional character absent, and L1cL2 for every character c (stated for
\* ASCII expressions and candidates).
C25_OptionalBetweenLiterals ==
  \A k \in 2..(Len(raw) - 1) :
    (/\ qpc = "matched"
     /\ IsAscii(raw) /\ IsAscii(subject)
     /\ raw[k] = "?"
     /\ IsLiteral(SubSeq(raw, 1, k - 1))
     /\ IsLiteral(SubSeq(raw, k + 1, Len(raw)))
     /\ OptionalBetween(subject, SubSeq(raw, 1, k - 1), SubSeq(raw, k + 1, Len(raw))))
      => result = "true"

----------------------------------------------------------------------------
(* Statements about the payload file names *)

\* the key with every character that is not ASCII alphanumeric replaced by
\* an underscore, plus the suffix
SanitizedName(key) ==
  [i \in 1..Len(key) |-> IF IsAsciiAlphanumeric(key[i]) THEN key[i] ELSE "_"]
    \o <<".", "b", "i", "n">>

\* two distinct keys with one payload file name
Collide(k1, k2) == k1 # k2 /\ SanitizedName(k1) = SanitizedName(k2)

\* a store(key, value) that wrote: the payload goes to the file of the
\* sanitized name, the key gets its own index entry, and the entry of every
\* other key stays as it was
StoreKeepsEntriesApart(key) ==
  (enabled /\ last'.op = "store" /\ last'.key = key /\ last'.ret.tag = "Ok") =>
    /\ DOMAIN files' = DOMAIN files \cup {SanitizedName(key)}
    /\ \E value \in Values : files'[SanitizedName(key)] = Serialize(value)
    /\ \A f \in DOMAIN files : f # SanitizedName(key) => files'[f] = files[f]
    /\ InIndex(key)'
    /\ \A k2 \in DOMAIN keys \ {key} :
         InIndex(k2) => InIndex(k2)' /\ index'.write_times[k2] = index.write_times[k2]

\* a load(k1) within the TTL of k1, the last write to the shared file being
\* an undisturbed store(k2, v2)
LoadAfterCollidingStore(k1, k2) ==
  /\ enabled
  /\ last'.op = "load" /\ last'.key = k1
  /\ Collide(k1, k2)
  /\ Fresh(k1)
  /\ k1 \in DOMAIN stored
  /\ k2 \in DOMAIN stored /\ stored[k2].intact

\* C23 as stated: the payload file of a key is named by the sanitized key
\* plus .bin; two keys that sanitize identically have separate index entries
\* and one payload file; and after store(k1, v1) then store(k2, v2), a
\* load(k1) within the TTL returns v2.
C23_CollidingKeysShareFile ==
  [][\A k1 \in DOMAIN keys :
       /\ StoreKeepsEntriesApart(k1)
       /\ \A k2 \in DOMAIN keys :
            LoadAfterCollidingStore(k1, k2) => last'.ret = Some(stored[k2].val)]_vars

\* C23 amended: ... a load(k1) within the TTL returns v2 when k2's payload
\* deserializes as the type requested under k1, and the error of the
\* deserialization otherwise; it does not return v1 unless v2 equals it.
C23_CollidingKeysShareFileOrError ==
  [][\A k1 \in DOMAIN keys :
       /\ StoreKeepsEntriesApart(k1)
       /\ \A k2 \in DOMAIN keys :
            LoadAfterCollidingStore(k1, k2) =>
              last'.ret = IF keys[k1] = keys[k2] THEN Some(stored[k2].val) ELSE Err]_vars

\* a load of the first key, both keys in the index, that returned the value
\* stored under the second
C23_Witness ==
  /\ last.op = "load"
  /\ enabled
  /\ \E k2 \in DOMAIN stored :
       /\ Collide(last.key, k2)
       /\ stored[k2].intact
       /\ InIndex(k2)
       /\ last.key \in DOMAIN stored
       /\ Fresh(last.key)
       /\ stored[last.key].val # stored[k2].val
       /\ last.ret = Some(stored[k2].val)

\* the file of the persisted index
IndexFile == path(CACHE_INDEX_KEY)

\* C28: the index file is the payload file of no key: no store, alone or
\* inside load_store, creates or rewrites the index file, and no shutdown
\* rewrites the payload file of a key.
C28_IndexFileApartFromPayloads ==
  [][/\ last'.op \in {"store", "load_store"} =>
          /\ IndexFile \in DOMAIN files' <=> IndexFile \in DOMAIN files
          /\ IndexFile \in DOMAIN files => files'[IndexFile] = files[IndexFile]
     /\ last'.op = "shutdown" =>
          \A key \in DOMAIN keys :
            HasPayload(key) => files'[path(key)] = files[path(key)]]_vars

----------------------------------------------------------------------------
(* Runs of the program over one cache directory: every run is a process    *)
(* that builds the store (Cache::new), the application (App::new), and     *)
(* calls App::run, whose list_projects goes through the store.  One folder *)
(* is configured, ScanRoot.                                                *)

\* the key of the folder and the key of its project list
FolderKey == <<"r">>
ProjectsKey == <<"r", "/", ".", "p", "r", "o", "j", "e", "c", "t", "s">>

\* the trees the folder can hold from one run to the next
Trees ==
  { {},
    {<<"r", "a", "Cargo.toml">>},
    {<<"r", "a", "Cargo.toml">>, <<"r", "a", "b", "go.mod">>},
    {<<"r", "a", "Cargo.toml">>, <<"r", ".x", "main.rs">>} }

\* the command lines of the runs
RunLines ==
  { [list |-> l, dump_config |-> FALSE, clean_cache |-> FALSE, no_cache |-> n, query |-> q] :
      l \in BOOLEAN, n \in BOOLEAN, q \in {<<"*">>, <<"1">>} }
  \cup
  { [list |-> FALSE, dump_config |-> FALSE, clean_cache |-> TRUE, no_cache |-> FALSE,
     query |-> <<"*">>] }

\* the store of a process: Cache.enabled, Cache.index, and the cache directory
Store0 == [enabled |-> enabled, index |-> index, dir_exists |-> dir_exists, files |-> files]

\* Cache::load at the time t, the value requested being of the given type
LoadAt(c, t, key, type) ==
  IF ~c.enabled THEN None
  ELSE IF key \notin DOMAIN c.index.write_times THEN None
  ELSE IF t >= c.index.write_times[key] + CACHE_BUST_THRESHOLD THEN None
  ELSE IF ~(c.dir_exists /\ path(key) \in DOMAIN c.files) THEN None
  ELSE LET de == Deserialize(c.files[path(key)], type) IN
       IF de.ok THEN Some(de.data) ELSE Err

\* Cache::store at the time t: the store after the call
StoreAt(c, t, key, type, value) ==
  IF c.enabled /\ c.dir_exists
  THEN [c EXCEPT
          !.files = FsWrite(@, path(key), [type |-> type, data |-> value]),
          !.index = [@ EXCEPT
                       !.paths = IF \E i \in 1..Len(@) : @[i] = key THEN @
                                 ELSE Append(@, key),
                       !.write_times = Insert(@, key, t)]]
  ELSE c

\* Cache::load_store at the time t, action() returning one of the outcomes:
\* the store after the call, what the call returns, whether action() ran
LoadStoreAt(c, t, key, type, outcomes) ==
  LET found == LoadAt(c, t, key, type) IN
  IF found.tag = "Some" THEN {[c |-> c, ret |-> Ok(found.val), computed |-> FALSE]}
  ELSE IF found.tag = "Err" THEN {[c |-> c, ret |-> Err, computed |-> FALSE]}
  ELSE { IF o.tag = "Err" THEN [c |-> c, ret |-> Err, computed |-> TRUE]
         ELSE [c |-> StoreAt(c, t, key, type, o.val),
               ret |-> IF c.enabled /\ ~c.dir_exists THEN Err ELSE Ok(o.val),
               computed |-> TRUE]
         : o \in outcomes }

\* what FolderScan::new(ScanRoot) can return
ScanOutcomes == {IF s.ok THEN Ok(s) ELSE Err : s \in scan_folder(ScanRoot)}

\* what list_projects did for the folder
Listing(c, ret, sc, scan_computed, projects_computed) ==
  [c |-> c, ret |-> ret, scan |-> sc,
   scan_computed |-> scan_computed, projects_computed |-> projects_computed]

NoScan == [ok |-> FALSE, files |-> <<>>]

\* App::list_projects for the one folder, its first load_store at the time
\* t1 and its second at the time t2
ListOverStore(c, t1, t2) ==
  UNION {
    IF first.ret.tag = "Err"
    THEN {Listing(first.c, Err, NoScan, first.computed, FALSE)}
    ELSE { Listing(second.c, second.ret, first.ret.val, first.computed, second.computed)
           : second \in LoadStoreAt(first.c, t2, ProjectsKey, "Projects",
                                    {Ok(ps) : ps \in detect_projects(first.ret.val.files,
                                                                     CustomKinds)}) }
    : first \in LoadStoreAt(c, t1, FolderKey, "FolderScan", ScanOutcomes) }

\* the components of a project's path as strings of characters
PathChars(ps) == [i \in DOMAIN ps |-> [j \in DOMAIN ps[i].path |-> Chars(ps[i].path[j])]]

NoRun == [ret |-> "none", msg |-> "none", written |-> <<>>, cleaned |-> FALSE,
          shutdown |-> FALSE, listed |-> FALSE, scan_computed |-> FALSE,
          projects_computed |-> FALSE, stored |-> {}]

\* the cache directory of a machine on which the program never ran
RInit ==
  /\ apc = "exited"
  /\ app_in = <<>>
  /\ app_out = NoRun
  /\ term = <<>>
  /\ xp = <<>>
  /\ tree \in Trees
  /\ unreadable = {}
  /\ scan = NoScan
  /\ projects = <<>>
  /\ keys = (FolderKey :> "FolderScan") @@ (ProjectsKey :> "Projects")
  /\ enabled = TRUE
  /\ index = EmptyIndex
  /\ dir_exists = FALSE
  /\ files = <<>>
  /\ now = 0
  /\ last = Call("new", <<>>, Ok("-"), None)
  /\ stored = <<>>
  /\ qpc = "idle"
  /\ raw = <<>>
  /\ subject = <<>>
  /\ query = NoQuery
  /\ result = "none"
  /\ ppc = "idle"
  /\ lock = "free"
  /\ thr = <<>>
  /\ order = <<>>

\* a process starts: cache() builds the store with Cache::new, App::new
\* parses the command line and disables the store under --no-cache
Start(line) ==
  /\ apc = "exited"
  /\ apc' = "ready"
  /\ app_in' = line
  /\ app_out' = NoRun
  /\ query' = from_str(line.query)
  /\ dir_exists' = TRUE
  /\ index' = IF dir_exists /\ IndexFile \in DOMAIN files
              THEN DeserializeIndex(files[IndexFile]).data
              ELSE EmptyIndex
  /\ enabled' = ~line.no_cache
  /\ last' = Call("new", <<>>, Ok("-"), None)
  /\ UNCHANGED <<term, xp, tree, unreadable, scan, projects, keys, files, now, stored>>
  /\ UNCHANGED <<qpc, raw, subject, result, ppc, tvars>>

\* the keys whose index entry or payload file the call wrote
Written(c, d) ==
  {key \in {FolderKey, ProjectsKey} :
     \/ (key \in DOMAIN d.index.write_times /\ key \notin DOMAIN c.index.write_times)
     \/ (key \in DOMAIN d.index.write_times /\ key \in DOMAIN c.index.write_times
           /\ d.index.write_times[key] # c.index.write_times[key])
     \/ (path(key) \in DOMAIN d.files /\ path(key) \notin DOMAIN c.files)
     \/ (path(key) \in DOMAIN d.files /\ path(key) \in DOMAIN c.files
           /\ d.files[path(key)] # c.files[path(key)])}

\* App::run of the process, then its exit; the clock may advance by dt
\* between the two load_store calls of list_projects
RunOverStore(dt) ==
  /\ apc = "ready"
  /\ apc' = "exited"
  /\ now + dt <= MaxClock
  /\ now' = now + dt
  /\ LET early == \/ app_in.list /\ app_in.query # <<"*">>
                  \/ app_in.dump_config
                  \/ app_in.clean_cache
     IN \E l \in IF early THEN {Listing(Store0, Err, NoScan, FALSE, FALSE)}
                 ELSE ListOverStore(Store0, now, now + dt) :
          LET line == [list |-> app_in.list, dump_config |-> app_in.dump_config,
                       clean_cache |-> app_in.clean_cache,
                       folders |-> <<IF l.ret.tag = "Err" THEN Err
                                     ELSE Ok(PathChars(l.ret.val))>>]
              out == run(line, query, <<1>>)
          IN /\ app_out' = [ret |-> IF out.cleaned /\ ~dir_exists THEN "Err" ELSE out.ret,
                            msg |-> out.msg, written |-> out.written,
                            cleaned |-> out.cleaned, shutdown |-> out.shutdown,
                            listed |-> ~early, scan_computed |-> l.scan_computed,
                            projects_computed |-> l.projects_computed,
                            stored |-> Written(Store0, l.c)]
             /\ scan' = l.scan
             /\ projects' = IF l.ret.tag = "Ok" THEN l.ret.val ELSE <<>>
             /\ dir_exists' = IF out.cleaned THEN FALSE ELSE dir_exists
             /\ index' = IF out.shutdown /\ enabled
                         THEN [l.c.index EXCEPT !.written_at = now']
                         ELSE l.c.index
             /\ files' = IF out.cleaned THEN <<>>
                         ELSE IF out.shutdown /\ enabled /\ dir_exists
                         THEN FsWrite(l.c.files, IndexFile, SerializeIndex(index'))
                         ELSE l.c.files
             /\ last' = IF out.cleaned
                        THEN Call("clean", <<>>, IF dir_exists THEN Ok("path") ELSE Err, None)
                        ELSE IF out.shutdown THEN Call("shutdown", <<>>, Ok("-"), None)
                        ELSE IF early THEN last
                        ELSE Call("load_store", FolderKey, Ok("-"), None)
  /\ UNCHANGED <<app_in, term, xp, query, tree, unreadable, keys, enabled, stored>>
  /\ UNCHANGED <<qpc, raw, subject, result, ppc, tvars>>

\* between two runs the folder's tree changes, or a directory of it becomes
\* unreadable or readable again
Touch ==
  /\ apc = "exited"
  /\ tree' \in Trees
  /\ unreadable' \in {{}} \cup {{d} : d \in {e \in DirUniverse : \E f \in tree' : IsPathPrefix(e, f)}}
  /\ <<tree', unreadable'>> # <<tree, unreadable>>
  /\ UNCHANGED <<scan, projects, avars, cvars, qvars, ppc, tvars>>

\* a minute passes between two runs
Wait ==
  /\ apc = "exited"
  /\ now < MaxClock
  /\ now' = now + 1
  /\ UNCHANGED <<tree, unreadable, scan, projects, avars, qvars, ppc, tvars>>
  /\ UNCHANGED <<keys, enabled, index, dir_exists, files, last, stored>>

RNext ==
  \/ \E line \in RunLines : Start(line)
  \/ \E dt \in 0..1 : RunOverStore(dt)
  \/ Touch
  \/ Wait

\* successive runs of the program
SpecRuns == RInit /\ [][RNext]_vars

----------------------------------------------------------------------------
(* Vocabulary of the statements about the runs *)

\* the run went through list_projects
Listed == apc = "exited" /\ app_out.listed

\* list_projects returned the map
ListedOk == Listed /\ app_out.msg # "load_store"

\* C22: the project list that list_projects returns for the folder is a
\* classification of the FolderScan obtained in the same call, and whenever
\* the scan was recomputed the project list was recomputed too, not served
\* from the cache.
C22_ProjectsFollowTheScan ==
  ListedOk =>
    /\ projects \in detect_projects(scan.files, CustomKinds)
    /\ app_out.scan_computed => app_out.projects_computed

\* a process that is about to call run, which will go on to list_projects
\* and find no usable scan of the folder in the store
AboutToScan ==
  /\ apc = "ready"
  /\ ~(app_in.list /\ app_in.query # <<"*">>)
  /\ ~app_in.dump_config
  /\ ~app_in.clean_cache
  /\ LoadAt(Store0, now, FolderKey, "FolderScan") = None

\* a directory that the walk lists, none of its components being pruned,
\* cannot be read
UnreadableListed ==
  \E d \in unreadable :
    /\ \E f \in tree : IsPathPrefix(d, f)
    /\ \A i \in (Len(ScanRoot) + 1)..Len(d) :
         d[i] \notin DIR_EXCLUSIONS /\ ~StartsWithDot(d[i])

\* C24: when listing a directory of the folder's subtree fails, the scan is
\* an error with no partial file list, run returns the error of load_store,
\* and nothing is persisted: no file of the cache directory is written and
\* no index entry is added or updated.
C24_FailedScanPersistsNothing ==
  [][(AboutToScan /\ UnreadableListed /\ apc' = "exited") =>
       /\ app_out'.ret = "Err"
       /\ app_out'.msg = "load_store"
       /\ scan' = NoScan
       /\ projects' = <<>>
       /\ files' = files
       /\ index' = index]_vars

\* a run whose scan failed, the store being enabled and holding an expired
\* scan of the folder
C24_Witness ==
  /\ Listed
  /\ enabled
  /\ app_out.scan_computed
  /\ app_out.msg = "load_store"
  /\ UnreadableListed
  /\ FolderKey \in DOMAIN index.write_times
  /\ now >= index.write_times[FolderKey] + CACHE_BUST_THRESHOLD
  /\ path(FolderKey) \in DOMAIN files

\* the index that a process starting now would read from the cache directory
IndexOnDisk ==
  IF dir_exists /\ IndexFile \in DOMAIN files
  THEN DeserializeIndex(files[IndexFile]).data
  ELSE EmptyIndex

\* C27: a run that went through list_projects and stored at least one cache
\* entry has saved the index when it returns, on the error returns too: every
\* entry it wrote is in the index file with the time of the write, so that
\* the next run finds it.
C27_StoredEntriesAreSaved ==
  (Listed /\ app_out.stored # {}) =>
    /\ app_out.shutdown
    /\ \A key \in app_out.stored :
         /\ key \in DOMAIN IndexOnDisk.write_times
         /\ IndexOnDisk.write_times[key] = index.write_times[key]

----------------------------------------------------------------------------
(* The terminal UI of src/lib/ui/terminal.rs.  A step of RenderLoop is one *)
(* iteration of the loop of render_loop: a frame is drawn, then the key    *)
(* event that arrived within the poll, if any, is handled.                 *)

\* the largest number of projects that App::run hands to the terminal
MaxProjects == 3

\* the project lists that write_matches is given
Matches == UNION {[1..k -> {"p", "q"}] : k \in 0..MaxProjects}

\* what event::poll and event::read give within an iteration
KeyEvents == {"none", "q", "Up", "Down", "Enter", "o", "x"}

\* the editor of the 'o' command: none configured, or what becomes of the
\* spawned process
Editors == {"missing", "spawn_fails", "exits_ok", "exits_failed"}

\* Option::unwrap_or_default on the selection
UnwrapOrDefault(sel) == IF sel.tag = "Some" THEN sel.val ELSE 0

\* projects[i] panics
OutOfBounds(t, i) == i >= Len(t.projects)

\* Terminal::new
UInit ==
  /\ term = [status |-> "new", projects |-> <<>>, selected |-> None,
             details_opened |-> FALSE]
  /\ xp = <<>>
  /\ apc = "idle"
  /\ app_in = <<>>
  /\ app_out = <<>>
  /\ qpc = "idle"
  /\ raw = <<>>
  /\ subject = <<>>
  /\ query = NoQuery
  /\ result = "none"
  /\ keys = <<>>
  /\ enabled = TRUE
  /\ index = EmptyIndex
  /\ dir_exists = TRUE
  /\ files = <<>>
  /\ now = 0
  /\ last = Call("new", <<>>, Ok("-"), None)
  /\ stored = <<>>
  /\ ppc = "idle"
  /\ tree = {}
  /\ unreadable = {}
  /\ scan = [ok |-> FALSE, files |-> <<>>]
  /\ projects = <<>>
  /\ lock = "free"
  /\ thr = <<>>
  /\ order = <<>>

\* Terminal::write_matches, which App::run calls once, before render_loop
WriteMatches(ms) ==
  /\ term.status = "new"
  /\ term' = [term EXCEPT
                !.status = "written",
                !.projects = @ \o ms,
                !.selected = IF term.projects \o ms = <<>> THEN None ELSE Some(0)]
  /\ UNCHANGED <<apc, app_in, app_out, xp, qvars, cvars, pvars, tvars>>

\* the key handling of an iteration of render_loop
HandleKey(t, ev, editor) ==
  LET cur_sel == UnwrapOrDefault(t.selected) IN
  CASE ev = "q" -> [t EXCEPT !.status = "quit"]
    [] ev = "Up" ->
         IF t.projects # <<>> /\ cur_sel > 0
         THEN [t EXCEPT !.selected = Some(cur_sel - 1)] ELSE t
    [] ev = "Down" ->
         IF t.projects # <<>> /\ cur_sel < Len(t.projects) - 1
         THEN [t EXCEPT !.selected = Some(cur_sel + 1)] ELSE t
    [] ev = "Enter" -> [t EXCEPT !.details_opened = ~@]
    [] ev = "o" ->
         IF editor = "missing" THEN [t EXCEPT !.status = "panic"]
         ELSE IF OutOfBounds(t, cur_sel) THEN [t EXCEPT !.status = "index_panic"]
         ELSE IF editor = "spawn_fails" THEN [t EXCEPT !.status = "error"]
         ELSE IF editor = "exits_failed" THEN [t EXCEPT !.status = "panic"]
         ELSE t
    [] OTHER -> t

\* one iteration of the loop of Terminal::render_loop: render_frame, which
\* reads projects[selected] when the details are opened, then the event
RenderLoop(ev, editor) ==
  /\ term.status \in {"written", "looping"}
  /\ term' = IF term.details_opened /\ OutOfBounds(term, UnwrapOrDefault(term.selected))
             THEN [term EXCEPT !.status = "index_panic"]
             ELSE HandleKey([term EXCEPT !.status = "looping"], ev, editor)
  /\ UNCHANGED <<apc, app_in, app_out, xp, qvars, cvars, pvars, tvars>>

UNext ==
  \/ \E ms \in Matches : WriteMatches(ms)
  \/ \E ev \in KeyEvents : \E editor \in Editors : RenderLoop(ev, editor)

\* the terminal UI alone
SpecTui == UInit /\ [][UNext]_vars

\* C29: after write_matches with any project list, the empty one included,
\* and any sequence of the keys Up, Down, Enter and 'o', the index used to
\* render the details or to open a project is a valid index of the list (no
\* indexing panics), and the selection, when there is one, is within
\* 0..len-1.
C29_SelectionIsValidIndex ==
  /\ term.status # "index_panic"
  /\ term.selected.tag = "Some" => term.selected.val \in 0..(Len(term.projects) - 1)

----------------------------------------------------------------------------
(* expand_path of src/lib/config.rs.  A step of Substitute is one          *)
(* iteration of its `while let Some(start) = ret.find("${")` loop.         *)

\* the longest path given to expand_path
MaxPathLen == 4

PathAlphabet == {"$", "{", "}", "A", "~", "/"}

\* the paths given to expand_path
ExpandInputs == UNION {[1..k -> PathAlphabet] : k \in 0..MaxPathLen}

\* the home directory, of UserDirs or of HOME
HomeDir == <<"/", "h">>

\* the process environment: what std::env::var("A") gives, every other name
\* being undefined
Environments ==
  {Err, Ok(<<>>), Ok(<<"/">>), Ok(<<"$", "{">>), Ok(<<"$", "{", "A", "}">>)}

\* std::env::var
EnvVar(env, name) == IF name = <<"A">> THEN env ELSE Err

\* str::find: the offset of the first occurrence of pat in s
StrFind(s, pat) ==
  LET at == {off \in 0..(Len(s) - Len(pat)) : SubSeq(s, off + 1, off + Len(pat)) = pat}
  IN IF at = {} THEN None ELSE Some(CHOOSE off \in at : \A o \in at : off <= o)

\* &s[from..]
StrFrom(s, from) == SubSeq(s, from + 1, Len(s))

\* the replacement of a leading ~ by the home directory
ExpandTilde(p) ==
  IF p # <<>> /\ Head(p) = "~"
  THEN LET sub == Trim(StrFrom(p, 1))
           rest == IF sub # <<>> /\ Head(sub) = "/" THEN Trim(StrFrom(sub, 1)) ELSE sub
       IN HomeDir \o <<"/">> \o rest
  ELSE p

\* one iteration of the substitution loop on ret: the new ret and where the
\* function is after it
Iteration(ret, env) ==
  LET start == StrFind(ret, <<"$", "{">>) IN
  IF start.tag = "None" THEN [pc |-> "done", ret |-> ret, out |-> Ok(ret)]
  ELSE LET close == StrFind(StrFrom(ret, start.val + 2), <<"}">>) IN
       IF close.tag = "None" THEN [pc |-> "loop", ret |-> ret, out |-> None]
       ELSE LET end == close.val + start.val + 2
                env_key == SubSeq(ret, start.val + 3, end)
                env_val == EnvVar(env, env_key)
            IN IF env_val.tag = "Ok"
               THEN [pc |-> "loop",
                     ret |-> SubSeq(ret, 1, start.val) \o env_val.val \o StrFrom(ret, end + 1),
                     out |-> None]
               ELSE [pc |-> "error", ret |-> ret, out |-> Err]

XInit ==
  /\ xp \in [pc : {"called"}, path : ExpandInputs, env : Environments,
             ret : {<<>>}, out : {None}, turns : {0}]
  /\ term = <<>>
  /\ apc = "idle"
  /\ app_in = <<>>
  /\ app_out = <<>>
  /\ qpc = "idle"
  /\ raw = <<>>
  /\ subject = <<>>
  /\ query = NoQuery
  /\ result = "none"
  /\ keys = <<>>
  /\ enabled = TRUE
  /\ index = EmptyIndex
  /\ dir_exists = TRUE
  /\ files = <<>>
  /\ now = 0
  /\ last = Call("new", <<>>, Ok("-"), None)
  /\ stored = <<>>
  /\ ppc = "idle"
  /\ tree = {}
  /\ unreadable = {}
  /\ scan = [ok |-> FALSE, files |-> <<>>]
  /\ projects = <<>>
  /\ lock = "free"
  /\ thr = <<>>
  /\ order = <<>>

\* expand_path up to its loop: the home directory, ret and the ~ replacement
EnterLoop ==
  /\ xp.pc = "called"
  /\ xp' = [xp EXCEPT !.pc = "loop", !.ret = ExpandTilde(xp.path)]
  /\ UNCHANGED <<apc, app_in, app_out, term, qvars, cvars, pvars, tvars>>

\* one evaluation of the loop condition and, when it holds, of the loop body
Substitute ==
  /\ xp.pc = "loop"
  /\ LET it == Iteration(xp.ret, xp.env)
     IN xp' = [xp EXCEPT !.pc = it.pc, !.ret = it.ret, !.out = it.out,
                         !.turns = (@ + 1) % 2]
  /\ UNCHANGED <<apc, app_in, app_out, term, qvars, cvars, pvars, tvars>>

XNext ==
  \/ EnterLoop
  \/ Substitute

\* expand_path, every call of it running on
SpecExpand == XInit /\ [][XNext]_vars /\ WF_vars(XNext)

\* expand_path has returned
Returned == xp.pc \in {"done", "error"}

\* C30: expand_path terminates for every path and every environment: each
\* iteration of the substitution loop replaces a placeholder, which brings
\* the string closer to one without placeholders, or returns the error of an
\* undefined variable, so that the call eventually returns.
C30_ExpandPathTerminates == <>Returned

====
